---- MODULE Spec2Model ----
(***************************************************************************)
(* The RaceDetail screen (race session) of the racing app, as a state      *)
(* machine: the component's state hooks and refs, its asynchronous         *)
(* handlers cut at every await, and the race service it talks to (REST     *)
(* requests and the socket.io channel).                                    *)
(*                                                                         *)
(* JavaScript runs the handlers one at a time, so every action below is    *)
(* one run of a handler from one await to the next.  The view is a         *)
(* function of the current state (state updates re-render before the next  *)
(* input is handled), so a button's press is guarded by the condition      *)
(* under which the JSX renders that button.                                *)
(***************************************************************************)
EXTENDS Integers, Sequences, FiniteSets, TLC

\* ---------------------------------------------------------------- bounds
MaxLoads == 1        \* loadRaceData invocations in flight
MaxJoinReqs == 2     \* POST /join requests in flight
MaxStartReqs == 1    \* POST /start requests in flight
MaxRacingCalls == 1  \* startRacing invocations in flight
MaxSubs == 2         \* location subscriptions ever created
MaxDialogs == 1      \* "Finish Race" confirmation dialogs open
MaxIdChanges == 1    \* times the route's id parameter changes
MaxNow == 3          \* last value of the clock (Date.now(), in ms, starts at 1)
MaxPoints == 4       \* waypoints of a circuit being drawn
MaxPosts == 1        \* POST /circuits requests in flight
MaxListReqs == 2     \* GET /races requests in flight

\* A change of the route always starts a load, next to those in flight.
MaxRouteLoads == MaxLoads + MaxIdChanges

\* ------------------------------------------------------------- constants
Me == "me"           \* user?.id of the authenticated user
Other == "u2"        \* some other user of the service
Users == {Me, Other}
Ids == 1..(MaxIdChanges + 1)   \* race ids the route parameter takes, in turn
Statuses == {"waiting", "active", "completed"}

Rank(s) == CASE s = "waiting" -> 1 [] s = "active" -> 2 [] s = "completed" -> 3 [] OTHER -> 0

NoRace == [rid |-> 0, status |-> "none", parts |-> {}, creator |-> "none"]
NoSocket == [st |-> "none", rid |-> 0, user |-> "none"]
NoEmit == [ev |-> "none", rid |-> 0, val |-> 0, lat |-> 0, lon |-> 0]

VARIABLES
    mounted,        \* the component instance is mounted
    id,             \* useLocalSearchParams().id
    idChanges,      \* how often id has changed (bounded)
    race,           \* useState: race (NoRace = null)
    circuit,        \* useState: circuit (0 = null, else the circuit's id)
    leaderboard,    \* useState: leaderboard (the finishers listed)
    loading,        \* useState: loading
    isRacing,       \* useState: isRacing
    raceStartTime,  \* useState: raceStartTime (0 = null)
    currentSpeed,   \* useState: currentSpeed, km/h
    currentTime,    \* useState: currentTime, ms
    sock,           \* socketRef.current and the state of that socket
    subs,           \* location subscriptions created so far, in order
    subRef,         \* locationSubscription.current (0 = null, else index in subs)
    loads,          \* loadRaceData invocations in flight
    joinReqs,       \* joinRace invocations in flight
    startReqs,      \* startRaceAsCreator invocations in flight
    racingCalls,    \* startRacing invocations in flight
    dialogs,        \* open finish confirmations (captured closure values)
    srv,            \* the race service: per race its status, participants, finishers
    creator,        \* the race service: per race its creator
    evStarted,      \* a race_started event is on its way to the socket
    evFinished,     \* a participant_finished event is on its way to the socket
    now,            \* Date.now()
    last,           \* what the most recent step did that the outside can see
    coordinates,    \* CreateCircuit: the waypoints tapped so far
    circuitName,    \* CreateCircuit: the name field
    saving,         \* CreateCircuit: the saving flag
    posts,          \* CreateCircuit: POST /circuits requests in flight
    filter,         \* Races: the selected status filter
    races,          \* Races: the list shown (the status its rows were fetched for)
    listLoading,    \* Races: the loading flag
    refreshing,     \* Races: the refreshing flag
    listReqs        \* Races: GET /races requests in flight

compVars == <<race, circuit, leaderboard, loading, isRacing, raceStartTime, currentSpeed, currentTime>>
refVars == <<sock, subs, subRef>>
flightVars == <<loads, joinReqs, startReqs, racingCalls, dialogs>>
srvVars == <<srv, creator>>
evVars == <<evStarted, evFinished>>
routeVars == <<mounted, id, idChanges>>
detailVars == <<routeVars, compVars, refVars, flightVars, srvVars, evVars, now>>
builderVars == <<coordinates, circuitName, saving, posts>>
listVars == <<filter, races, listLoading, refreshing, listReqs>>
screenVars == <<builderVars, listVars>>
vars == <<detailVars, last, screenVars>>

\* ---------------------------------------------------------------- helpers

\* What a step shows to the outside: the Alert it raised, the socket event it
\* emitted and the HTTP requests it issued.
Obs(alert, emit, http) == [alert |-> alert, emit |-> emit, http |-> http]

\* A useState setter: React drops an update of an unmounted component.
SetState(cur, new) == IF mounted THEN new ELSE cur

\* Remove the k-th element of a sequence.
RemoveAt(s, k) == [i \in 1..(Len(s) - 1) |-> IF i < k THEN s[i] ELSE s[i + 1]]

\* The screen is past its two early returns (loading spinner, "Race not found").
Rendered == mounted /\ ~loading /\ race # NoRace /\ circuit # 0

isCreator == race.creator = Me
hasJoined == Me \in race.parts
\* canStart without its participants.length > 0 conjunct.
canStartAnyCount == isCreator /\ race.status = "waiting"
canStart == isCreator /\ race.status = "waiting" /\ Cardinality(race.parts) > 0

\* The JSX conditions under which each action button is rendered.
\* (ShowJoinAnyStatus: the Join button without its status === 'waiting' test.)
ShowJoinAnyStatus == Rendered /\ ~hasJoined
ShowJoin == Rendered /\ race.status = "waiting" /\ ~hasJoined
ShowStart == Rendered /\ canStart
ShowBegin == Rendered /\ race.status = "active" /\ hasJoined /\ ~isRacing
ShowFinish == Rendered /\ isRacing

\* connectWebSocket: the socket after the call, made by a closure over race id r;
\* its address ends in the user's id.
connectWebSocket(r) ==
    IF sock.st # "none" THEN sock ELSE [st |-> "connecting", rid |-> r, user |-> Me]

\* The useEffect cleanup's effect on the socket and on the subscriptions.
CleanupSock == IF sock.st # "none" THEN [sock EXCEPT !.st = "closed"] ELSE sock
RemoveSub(ss, k) == IF k # 0 THEN [ss EXCEPT ![k].active = FALSE] ELSE ss

\* A new loadRaceData invocation by a closure over race id r: both GETs are sent.
NewLoad(r) == [rid |-> r, pc |-> "sent", status |-> "none", parts |-> {}, fin |-> {}]
LoadHttpWithCircuit == {"GET race", "GET leaderboard", "GET circuit"}
LoadHttp == {"GET race", "GET leaderboard"}

\* The socket is in race i's broadcast group (it connected and emitted join_race).
InGroup(i) == sock.st = "connected" /\ sock.rid = i

\* CreateCircuit and Races as constructed (their useState initial values).
InitBuilder == coordinates = <<>> /\ circuitName = <<>> /\ saving = FALSE /\ posts = <<>>
\* Races after its first render: the effect has called loadRaces for the
\* initial filter.  races holds the status the rows shown were fetched for.
InitList ==
    /\ filter = "waiting" /\ races = "none" /\ listLoading = TRUE /\ refreshing = FALSE
    /\ listReqs = <<"waiting">>

TypeOK ==
    /\ mounted \in BOOLEAN /\ id \in Ids /\ idChanges \in 0..MaxIdChanges
    /\ loading \in BOOLEAN /\ isRacing \in BOOLEAN
    /\ sock.st \in {"none", "connecting", "connected", "closed"}
    /\ subRef \in 0..Len(subs)
    /\ Len(loads) <= MaxRouteLoads /\ Len(subs) <= MaxSubs

Init ==
    /\ mounted = TRUE /\ id = 1 /\ idChanges = 0
    /\ race = NoRace /\ circuit = 0 /\ leaderboard = {} /\ loading = TRUE
    /\ isRacing = FALSE /\ raceStartTime = 0 /\ currentSpeed = 0 /\ currentTime = 0
    /\ sock = NoSocket /\ subs = <<>> /\ subRef = 0
    /\ loads = <<NewLoad(1)>>
    /\ joinReqs = <<>> /\ startReqs = <<>> /\ racingCalls = <<>> /\ dialogs = <<>>
    /\ \E p \in {{}, {Me}} :
          srv = [i \in Ids |-> [status |-> "waiting", parts |-> IF i = 1 THEN p ELSE {}, fin |-> {}]]
    /\ \E u \in Users : creator = [i \in Ids |-> IF i = 1 THEN u ELSE Other]
    /\ evStarted = FALSE /\ evFinished = FALSE
    /\ now = 1
    /\ last = Obs("none", NoEmit, LoadHttp)
    /\ InitBuilder /\ InitList

\* ------------------------------------------------------- loadRaceData
\* The race service answers the race and leaderboard GETs of load k.
LoadServe(k) ==
    /\ k \in 1..Len(loads) /\ loads[k].pc = "sent"
    /\ loads' = [loads EXCEPT ![k] = [rid |-> loads[k].rid, pc |-> "got",
                    status |-> srv[loads[k].rid].status,
                    parts |-> srv[loads[k].rid].parts,
                    fin |-> srv[loads[k].rid].fin]]
    /\ last' = Obs("none", NoEmit, {})
    /\ UNCHANGED <<screenVars, routeVars, compVars, refVars, joinReqs, startReqs, racingCalls, dialogs,
                   srvVars, evVars, now>>

\* Promise.all rejects (race id unknown, transport error): catch, then finally.
LoadFail(k) ==
    /\ k \in 1..Len(loads) /\ loads[k].pc = "sent"
    /\ loads' = RemoveAt(loads, k)
    /\ loading' = SetState(loading, FALSE)
    /\ last' = Obs("Error", NoEmit, {})
    /\ UNCHANGED <<screenVars, routeVars, race, circuit, leaderboard, isRacing, raceStartTime, currentSpeed,
                   currentTime, refVars, joinReqs, startReqs, racingCalls, dialogs,
                   srvVars, evVars, now>>

\* Promise.all resolves: setRace, setLeaderboard, then the circuit GET is sent.
LoadGot(k) ==
    /\ k \in 1..Len(loads) /\ loads[k].pc = "got"
    /\ race' = SetState(race, [rid |-> loads[k].rid, status |-> loads[k].status,
                               parts |-> loads[k].parts, creator |-> creator[loads[k].rid]])
    /\ leaderboard' = SetState(leaderboard, loads[k].fin)
    /\ loads' = [loads EXCEPT ![k].pc = "circuit"]
    /\ last' = Obs("none", NoEmit, {"GET circuit"})
    /\ UNCHANGED <<screenVars, routeVars, circuit, loading, isRacing, raceStartTime, currentSpeed,
                   currentTime, refVars, joinReqs, startReqs, racingCalls, dialogs,
                   srvVars, evVars, now>>

\* The circuit GET resolves: setCircuit, connectWebSocket unless completed, finally.
LoadCircuitOk(k) ==
    /\ k \in 1..Len(loads) /\ loads[k].pc = "circuit"
    /\ circuit' = SetState(circuit, loads[k].rid)
    /\ sock' = IF loads[k].status \in {"active", "waiting"}
               THEN connectWebSocket(loads[k].rid) ELSE sock
    /\ loading' = SetState(loading, FALSE)
    /\ loads' = RemoveAt(loads, k)
    /\ last' = Obs("none", NoEmit, {})
    /\ UNCHANGED <<screenVars, routeVars, race, leaderboard, isRacing, raceStartTime, currentSpeed,
                   currentTime, subs, subRef, joinReqs, startReqs, racingCalls, dialogs,
                   srvVars, evVars, now>>

\* loadRaceData with connectWebSocket called before the circuit GET.
LoadCircuitFailConnected(k) ==
    /\ k \in 1..Len(loads) /\ loads[k].pc = "circuit"
    /\ sock' = IF loads[k].status \in {"active", "waiting"}
               THEN connectWebSocket(loads[k].rid) ELSE sock
    /\ loading' = SetState(loading, FALSE)
    /\ loads' = RemoveAt(loads, k)
    /\ last' = Obs("Error", NoEmit, {})
    /\ UNCHANGED <<screenVars, routeVars, race, circuit, leaderboard, isRacing, raceStartTime, currentSpeed,
                   currentTime, subs, subRef, joinReqs, startReqs, racingCalls, dialogs,
                   srvVars, evVars, now>>

\* The circuit GET rejects: catch, then finally.
LoadCircuitFail(k) ==
    /\ k \in 1..Len(loads) /\ loads[k].pc = "circuit"
    /\ loading' = SetState(loading, FALSE)
    /\ loads' = RemoveAt(loads, k)
    /\ last' = Obs("Error", NoEmit, {})
    /\ UNCHANGED <<screenVars, routeVars, race, circuit, leaderboard, isRacing, raceStartTime, currentSpeed,
                   currentTime, refVars, joinReqs, startReqs, racingCalls, dialogs,
                   srvVars, evVars, now>>

\* ------------------------------------------------------------ the channel
\* socket.on('connect'): the socket connects and emits join_race.
SocketConnect ==
    /\ sock.st = "connecting"
    /\ sock' = [sock EXCEPT !.st = "connected"]
    /\ last' = Obs("none", [ev |-> "join_race", rid |-> sock.rid, val |-> 0, lat |-> 0, lon |-> 0], {})
    /\ UNCHANGED <<screenVars, routeVars, compVars, subs, subRef, flightVars, srvVars, evVars, now>>

\* socket.on('race_started'): Alert, status := active, startRacing().
OnRaceStarted ==
    /\ sock.st = "connected" /\ evStarted
    /\ Len(racingCalls) < MaxRacingCalls
    /\ evStarted' = FALSE
    /\ race' = SetState(race, [race EXCEPT !.status = "active"])
    /\ racingCalls' = Append(racingCalls, [rid |-> sock.rid, pc |-> "perm"])
    /\ last' = Obs("Race Started!", NoEmit, {})
    /\ UNCHANGED <<screenVars, routeVars, circuit, leaderboard, loading, isRacing, raceStartTime,
                   currentSpeed, currentTime, refVars, loads, joinReqs, startReqs, dialogs,
                   srvVars, evFinished, now>>

\* A participant_finished handler that adds the finisher to the leaderboard.
OnParticipantFinishedIncremental ==
    /\ sock.st = "connected" /\ evFinished
    /\ Len(loads) < MaxLoads
    /\ evFinished' = FALSE
    /\ leaderboard' = SetState(leaderboard, leaderboard \cup srv[sock.rid].fin)
    /\ last' = Obs("none", NoEmit, {})
    /\ UNCHANGED <<screenVars, routeVars, race, circuit, loading, isRacing, raceStartTime, currentSpeed,
                   currentTime, refVars, flightVars, srvVars, evStarted, now>>

\* socket.on('participant_finished'): loadRaceData().
OnParticipantFinished ==
    /\ sock.st = "connected" /\ evFinished
    /\ Len(loads) < MaxLoads
    /\ evFinished' = FALSE
    /\ loads' = Append(loads, NewLoad(sock.rid))
    /\ last' = Obs("none", NoEmit, LoadHttp)
    /\ UNCHANGED <<screenVars, routeVars, compVars, refVars, joinReqs, startReqs, racingCalls, dialogs,
                   srvVars, evStarted, now>>

\* --------------------------------------------------------------- joinRace
\* The Join Race button: POST /races/{id}/join is sent.
JoinPress ==
    /\ ShowJoin
    /\ Len(joinReqs) < MaxJoinReqs
    /\ joinReqs' = Append(joinReqs, [rid |-> id, pc |-> "sent"])
    /\ last' = Obs("none", NoEmit, {"POST join"})
    /\ UNCHANGED <<screenVars, routeVars, compVars, refVars, loads, startReqs, racingCalls, dialogs,
                   srvVars, evVars, now>>

\* The race service accepts a join: it adds the user to a waiting race.
JoinServe(k) ==
    /\ k \in 1..Len(joinReqs) /\ joinReqs[k].pc = "sent"
    /\ LET r == joinReqs[k].rid
           ok == srv[r].status = "waiting" /\ Me \notin srv[r].parts
       IN /\ srv' = [srv EXCEPT ![r].parts = @ \cup {Me}]
          /\ ok
          /\ joinReqs' = [joinReqs EXCEPT ![k].pc = "ok"]
    /\ last' = Obs("none", NoEmit, {})
    /\ UNCHANGED <<screenVars, routeVars, compVars, refVars, loads, startReqs, racingCalls, dialogs,
                   creator, evVars, now>>

\* The POST resolves: Alert, loadRaceData().
JoinOk(k) ==
    /\ k \in 1..Len(joinReqs) /\ joinReqs[k].pc = "ok"
    /\ Len(loads) < MaxLoads
    /\ joinReqs' = RemoveAt(joinReqs, k)
    /\ loads' = Append(loads, NewLoad(joinReqs[k].rid))
    /\ last' = Obs("Success", NoEmit, LoadHttp)
    /\ UNCHANGED <<screenVars, routeVars, compVars, refVars, startReqs, racingCalls, dialogs,
                   srvVars, evVars, now>>

\* The POST rejects (the service refuses it, or the transport fails): Alert.
JoinErr(k) ==
    /\ k \in 1..Len(joinReqs) /\ joinReqs[k].pc = "sent"
    /\ joinReqs' = RemoveAt(joinReqs, k)
    /\ last' = Obs("Error", NoEmit, {})
    /\ UNCHANGED <<screenVars, routeVars, compVars, refVars, loads, startReqs, racingCalls, dialogs,
                   srvVars, evVars, now>>

\* ----------------------------------------------------- startRaceAsCreator
\* The Start Race button: POST /races/{id}/start is sent.
StartPress ==
    /\ ShowStart
    /\ Len(startReqs) < MaxStartReqs
    /\ startReqs' = Append(startReqs, [rid |-> id, pc |-> "sent"])
    /\ last' = Obs("none", NoEmit, {"POST start"})
    /\ UNCHANGED <<screenVars, routeVars, compVars, refVars, loads, joinReqs, racingCalls, dialogs,
                   srvVars, evVars, now>>

\* The race service accepts a start: the creator's waiting race with a
\* participant becomes active and race_started goes out to the race's group.
StartServe(k) ==
    /\ k \in 1..Len(startReqs) /\ startReqs[k].pc = "sent"
    /\ LET r == startReqs[k].rid
           ok == creator[r] = Me /\ srv[r].status = "waiting" /\ srv[r].parts # {}
       IN /\ srv' = [srv EXCEPT ![r].status = "active"]
          /\ evStarted' = IF InGroup(r) THEN TRUE ELSE evStarted
          /\ ok
          /\ startReqs' = [startReqs EXCEPT ![k].pc = "ok"]
    /\ last' = Obs("none", NoEmit, {})
    /\ UNCHANGED <<screenVars, routeVars, compVars, refVars, loads, joinReqs, racingCalls, dialogs,
                   creator, evFinished, now>>

\* startRaceAsCreator with an optimistic setRace(status: 'active') after the await.
StartOkOptimistic(k) ==
    /\ k \in 1..Len(startReqs) /\ startReqs[k].pc = "ok"
    /\ startReqs' = RemoveAt(startReqs, k)
    /\ race' = SetState(race, [race EXCEPT !.status = "active"])
    /\ last' = Obs("none", NoEmit, {})
    /\ UNCHANGED <<screenVars, routeVars, circuit, leaderboard, loading, isRacing, raceStartTime,
                   currentSpeed, currentTime, refVars, loads, joinReqs, racingCalls, dialogs,
                   srvVars, evVars, now>>

\* The POST resolves: the handler does nothing more.
StartOk(k) ==
    /\ k \in 1..Len(startReqs) /\ startReqs[k].pc = "ok"
    /\ startReqs' = RemoveAt(startReqs, k)
    /\ last' = Obs("none", NoEmit, {})
    /\ UNCHANGED <<screenVars, routeVars, compVars, refVars, loads, joinReqs, racingCalls, dialogs,
                   srvVars, evVars, now>>

\* The POST rejects (the service refuses it, or the transport fails): Alert.
StartErr(k) ==
    /\ k \in 1..Len(startReqs) /\ startReqs[k].pc = "sent"
    /\ startReqs' = RemoveAt(startReqs, k)
    /\ last' = Obs("Error", NoEmit, {})
    /\ UNCHANGED <<screenVars, routeVars, compVars, refVars, loads, joinReqs, racingCalls, dialogs,
                   srvVars, evVars, now>>

\* ------------------------------------------------------------ startRacing
\* The Begin Racing button: startRacing() is called and awaits the permission.
BeginPress ==
    /\ ShowBegin
    /\ Len(racingCalls) < MaxRacingCalls
    /\ racingCalls' = Append(racingCalls, [rid |-> id, pc |-> "perm"])
    /\ last' = Obs("none", NoEmit, {})
    /\ UNCHANGED <<screenVars, routeVars, compVars, refVars, loads, joinReqs, startReqs, dialogs,
                   srvVars, evVars, now>>

\* startRacing without the return after the Permission Denied alert.
PermissionDeniedFallsThrough(c) ==
    /\ c \in 1..Len(racingCalls) /\ racingCalls[c].pc = "perm"
    /\ isRacing' = SetState(isRacing, TRUE)
    /\ raceStartTime' = SetState(raceStartTime, now)
    /\ racingCalls' = [racingCalls EXCEPT ![c].pc = "watch"]
    /\ last' = Obs("Permission Denied", NoEmit, {})
    /\ UNCHANGED <<screenVars, routeVars, race, circuit, leaderboard, loading, currentSpeed, currentTime,
                   refVars, loads, joinReqs, startReqs, dialogs, srvVars, evVars, now>>

\* requestForegroundPermissionsAsync resolves with a status other than granted.
PermissionDenied(c) ==
    /\ c \in 1..Len(racingCalls) /\ racingCalls[c].pc = "perm"
    /\ racingCalls' = RemoveAt(racingCalls, c)
    /\ last' = Obs("Permission Denied", NoEmit, {})
    /\ UNCHANGED <<screenVars, routeVars, compVars, refVars, loads, joinReqs, startReqs, dialogs,
                   srvVars, evVars, now>>

\* It resolves granted: setIsRacing(true), setRaceStartTime(Date.now()), then
\* watchPositionAsync is awaited.
PermissionGranted(c) ==
    /\ c \in 1..Len(racingCalls) /\ racingCalls[c].pc = "perm"
    /\ isRacing' = SetState(isRacing, TRUE)
    /\ raceStartTime' = SetState(raceStartTime, now)
    /\ racingCalls' = [racingCalls EXCEPT ![c].pc = "watch"]
    /\ last' = Obs("none", NoEmit, {})
    /\ UNCHANGED <<screenVars, routeVars, race, circuit, leaderboard, loading, currentSpeed, currentTime,
                   refVars, loads, joinReqs, startReqs, dialogs, srvVars, evVars, now>>

\* watchPositionAsync resolves: the subscription is stored in the ref.
WatchResolve(c) ==
    /\ c \in 1..Len(racingCalls) /\ racingCalls[c].pc = "watch"
    /\ Len(subs) < MaxSubs
    /\ subs' = Append(subs, [rid |-> racingCalls[c].rid, active |-> TRUE])
    /\ subRef' = Len(subs) + 1
    /\ racingCalls' = RemoveAt(racingCalls, c)
    /\ last' = Obs("none", NoEmit, {})
    /\ UNCHANGED <<screenVars, routeVars, compVars, sock, loads, joinReqs, startReqs, dialogs,
                   srvVars, evVars, now>>

\* watchPositionAsync rejects: startRacing has no handler for it.
WatchReject(c) ==
    /\ c \in 1..Len(racingCalls) /\ racingCalls[c].pc = "watch"
    /\ racingCalls' = RemoveAt(racingCalls, c)
    /\ last' = Obs("none", NoEmit, {})
    /\ UNCHANGED <<screenVars, routeVars, compVars, refVars, loads, joinReqs, startReqs, dialogs,
                   srvVars, evVars, now>>

\* Speeds the location provider reports, in m/s.
Speeds == {0, 5}

\* The samples a subscription delivers: coords.speed is null (the empty
\* sequence) or holds a speed.
Locations ==
    [latitude : {41, 42}, longitude : {2}, speed : {<<>>} \cup {<<v>> : v \in Speeds}]

\* location.coords.speed || 0
SpeedOrZero(sp) == IF sp = <<>> THEN 0 ELSE IF sp[1] = 0 THEN 0 ELSE sp[1]

\* speed * 3.6; speeds in km/h are kept in tenths, so that * 3.6 is * 36.
ToKmh(speed) == speed * 36

\* A callback that gives up racing when the socket is not connected.
LocationCallbackStopsRacing(s, location) ==
    /\ s \in 1..Len(subs) /\ subs[s].active
    /\ currentSpeed' = SetState(currentSpeed, ToKmh(SpeedOrZero(location.speed)))
    /\ isRacing' = IF sock.st = "connected" THEN isRacing ELSE SetState(isRacing, FALSE)
    /\ subs' = IF sock.st = "connected" THEN subs ELSE RemoveSub(subs, s)
    /\ last' = IF sock.st = "connected"
               THEN Obs("none", [ev |-> "position_update", rid |-> subs[s].rid,
                                 val |-> SpeedOrZero(location.speed),
                                 lat |-> location.latitude, lon |-> location.longitude], {})
               ELSE Obs("Error", NoEmit, {})
    /\ UNCHANGED <<screenVars, routeVars, race, circuit, leaderboard, loading, raceStartTime,
                   currentTime, sock, subRef, flightVars, srvVars, evVars, now>>

\* A callback that forwards the converted speed.
LocationCallbackSendsKmh(s, location) ==
    /\ s \in 1..Len(subs) /\ subs[s].active
    /\ currentSpeed' = SetState(currentSpeed, ToKmh(SpeedOrZero(location.speed)))
    /\ last' = Obs("none",
                   IF sock.st # "none"
                   THEN [ev |-> "position_update", rid |-> subs[s].rid,
                         val |-> ToKmh(SpeedOrZero(location.speed)),
                         lat |-> location.latitude, lon |-> location.longitude]
                   ELSE NoEmit, {})
    /\ UNCHANGED <<screenVars, routeVars, race, circuit, leaderboard, loading, isRacing, raceStartTime,
                   currentTime, refVars, flightVars, srvVars, evVars, now>>

\* The callback of an active subscription s: setCurrentSpeed(speed * 3.6) and,
\* if socketRef.current is set, emit position_update with the closure's race
\* id, the sample's latitude and longitude and the speed before conversion.
LocationCallback(s, location) ==
    /\ s \in 1..Len(subs) /\ subs[s].active
    /\ currentSpeed' = SetState(currentSpeed, ToKmh(SpeedOrZero(location.speed)))
    /\ last' = Obs("none",
                   IF sock.st # "none"
                   THEN [ev |-> "position_update", rid |-> subs[s].rid,
                         val |-> SpeedOrZero(location.speed),
                         lat |-> location.latitude, lon |-> location.longitude]
                   ELSE NoEmit, {})
    /\ UNCHANGED <<screenVars, routeVars, race, circuit, leaderboard, loading, isRacing, raceStartTime,
                   currentTime, refVars, flightVars, srvVars, evVars, now>>

\* ------------------------------------------------------------- finishRace
\* The Finish Race button: the confirmation is shown; its Finish handler is a
\* closure over this render's id and raceStartTime.
FinishPress ==
    /\ ShowFinish
    /\ Len(dialogs) < MaxDialogs
    /\ dialogs' = Append(dialogs, [rid |-> id, start |-> raceStartTime])
    /\ last' = Obs("Finish Race", NoEmit, {})
    /\ UNCHANGED <<screenVars, routeVars, compVars, refVars, loads, joinReqs, startReqs, racingCalls,
                   srvVars, evVars, now>>

\* Cancel on the confirmation.
FinishCancel(d) ==
    /\ d \in 1..Len(dialogs)
    /\ dialogs' = RemoveAt(dialogs, d)
    /\ last' = Obs("none", NoEmit, {})
    /\ UNCHANGED <<screenVars, routeVars, compVars, refVars, loads, joinReqs, startReqs, racingCalls,
                   srvVars, evVars, now>>

\* Finish on the confirmation: emit finish_race if socketRef.current is set,
\* setIsRacing(false), remove the referenced subscription, Alert, loadRaceData().
\* The final time is kept in ms (the code divides it by 1000).  The race service
\* records a finish it receives over a connected socket and tells the group.
FinishConfirm(d) ==
    /\ d \in 1..Len(dialogs)
    /\ Len(loads) < MaxLoads
    /\ LET r == dialogs[d].rid
           recv == sock.st = "connected" /\ srv[r].status = "active"
                   /\ Me \in srv[r].parts /\ Me \notin srv[r].fin
       IN /\ srv' = IF recv THEN [srv EXCEPT ![r].fin = @ \cup {Me}] ELSE srv
          /\ evFinished' = IF recv /\ InGroup(r) THEN TRUE ELSE evFinished
          /\ last' = Obs("Race Complete!",
                         IF sock.st # "none"
                         THEN [ev |-> "finish_race", rid |-> r, val |-> now - dialogs[d].start,
                               lat |-> 0, lon |-> 0]
                         ELSE NoEmit, LoadHttp)
          /\ loads' = Append(loads, NewLoad(r))
    /\ isRacing' = SetState(isRacing, FALSE)
    /\ subs' = RemoveSub(subs, subRef)
    /\ dialogs' = RemoveAt(dialogs, d)
    /\ UNCHANGED <<screenVars, routeVars, race, circuit, leaderboard, loading, raceStartTime, currentSpeed,
                   currentTime, sock, subRef, joinReqs, startReqs, racingCalls,
                   creator, evStarted, now>>

\* ------------------------------------------------------ the timer effect
\* A millisecond passes.
ClockTick ==
    /\ now < MaxNow
    /\ now' = now + 1
    /\ last' = Obs("none", NoEmit, {})
    /\ UNCHANGED <<screenVars, routeVars, compVars, refVars, flightVars, srvVars, evVars>>

\* The interval set up while isRacing && raceStartTime fires:
\* setCurrentTime(Date.now() - raceStartTime).  The effect's cleanup clears
\* the interval when either dependency changes and at unmount.
TimerTick ==
    /\ mounted /\ isRacing /\ raceStartTime # 0
    /\ currentTime' = now - raceStartTime
    /\ last' = Obs("none", NoEmit, {})
    /\ UNCHANGED <<screenVars, routeVars, race, circuit, leaderboard, loading, isRacing, raceStartTime,
                   currentSpeed, refVars, flightVars, srvVars, evVars, now>>

\* ------------------------------------------------------ the [id] useEffect
\* The component is discarded: the effect's cleanup runs and the component's
\* state goes with it (the hooks' values are written as at construction).
Unmount ==
    /\ mounted
    /\ mounted' = FALSE
    /\ sock' = CleanupSock
    /\ subs' = RemoveSub(subs, subRef)
    /\ race' = NoRace /\ circuit' = 0 /\ leaderboard' = {} /\ loading' = TRUE
    /\ isRacing' = FALSE /\ raceStartTime' = 0 /\ currentSpeed' = 0 /\ currentTime' = 0
    /\ last' = Obs("none", NoEmit, {})
    /\ UNCHANGED <<screenVars, id, idChanges, subRef, flightVars, srvVars, evVars, now>>

\* The route's id changes to j in the mounted component: the cleanup runs, then
\* the effect runs again and calls loadRaceData() for j.  Race j is one the
\* session has not shown yet; who created it and whether this user is in it
\* already is settled when the route first asks about it.
ChangeId(j) ==
    /\ mounted /\ j = id + 1 /\ j \in Ids
    /\ idChanges < MaxIdChanges
    /\ id' = j /\ idChanges' = idChanges + 1
    /\ sock' = CleanupSock
    /\ subs' = RemoveSub(subs, subRef)
    /\ loads' = Append(loads, NewLoad(j))
    /\ \E p \in {{}, {Me}} : srv' = [srv EXCEPT ![j].parts = p]
    /\ \E u \in Users : creator' = [creator EXCEPT ![j] = u]
    /\ last' = Obs("none", NoEmit, LoadHttp)
    /\ UNCHANGED <<screenVars, mounted, compVars, subRef, joinReqs, startReqs, racingCalls, dialogs,
                   evVars, now>>

\* ------------------------------------------- the race service's other users
\* Race i is one this client can still learn about: the route shows it, the
\* socket is in its group, or a request about it is unanswered.  What other
\* users do to a race nobody here will ask about again is left out.
Watched(i) ==
    \/ mounted /\ id = i
    \/ InGroup(i)
    \/ \E k \in 1..Len(loads) : loads[k].rid = i /\ loads[k].pc = "sent"
    \/ \E k \in 1..Len(joinReqs) : joinReqs[k].rid = i /\ joinReqs[k].pc = "sent"
    \/ \E k \in 1..Len(startReqs) : startReqs[k].rid = i /\ startReqs[k].pc = "sent"

\* Another user joins waiting race i.
OtherJoin(i) ==
    /\ Watched(i)
    /\ srv[i].status = "waiting" /\ Other \notin srv[i].parts
    /\ srv' = [srv EXCEPT ![i].parts = @ \cup {Other}]
    /\ last' = Obs("none", NoEmit, {})
    /\ UNCHANGED <<screenVars, routeVars, compVars, refVars, flightVars, creator, evVars, now>>

\* Race i's creator, another user, starts it: race_started goes to the group.
OtherStart(i) ==
    /\ Watched(i)
    /\ creator[i] = Other /\ srv[i].status = "waiting" /\ srv[i].parts # {}
    /\ srv' = [srv EXCEPT ![i].status = "active"]
    /\ evStarted' = IF InGroup(i) THEN TRUE ELSE evStarted
    /\ last' = Obs("none", NoEmit, {})
    /\ UNCHANGED <<screenVars, routeVars, compVars, refVars, flightVars, creator, evFinished, now>>

\* Another participant finishes race i: participant_finished goes to the group.
OtherFinish(i) ==
    /\ Watched(i)
    /\ srv[i].status = "active" /\ Other \in srv[i].parts /\ Other \notin srv[i].fin
    /\ srv' = [srv EXCEPT ![i].fin = @ \cup {Other}]
    /\ evFinished' = IF InGroup(i) THEN TRUE ELSE evFinished
    /\ last' = Obs("none", NoEmit, {})
    /\ UNCHANGED <<screenVars, routeVars, compVars, refVars, flightVars, creator, evStarted, now>>

\* The race service completes race i once someone has finished it.
Complete(i) ==
    /\ Watched(i)
    /\ srv[i].status = "active" /\ srv[i].fin # {}
    /\ srv' = [srv EXCEPT ![i].status = "completed"]
    /\ last' = Obs("none", NoEmit, {})
    /\ UNCHANGED <<screenVars, routeVars, compVars, refVars, flightVars, creator, evVars, now>>

\* ================================================================ CreateCircuit
\* Waypoints the map can be tapped at: three on the equator, and two that lie
\* opposite each other on the globe.
P00 == [latitude |-> 0, longitude |-> 0]
P01 == [latitude |-> 0, longitude |-> 1]
P03 == [latitude |-> 0, longitude |-> 3]
N8 == [latitude |-> 8, longitude |-> 0]
S8 == [latitude |-> 0 - 8, longitude |-> 180]
Points == {P00, P01, P03, N8, S8}

\* Circuit names the field can hold: sequences of characters.
Names == {<<>>, <<" ">>, <<"a">>, <<" ", "a">>}

\* Numbers are JavaScript doubles.  Lengths are kept in metres, and a sum is
\* rounded to MantBits significant bits, to nearest and ties to even, as an
\* IEEE-754 addition rounds to 53; NaN is the value Math.sqrt gives a negative
\* number, and every operation on NaN gives NaN.
MantBits == 18
NaN == 0 - 1

RECURSIVE Quantum(_, _)
Quantum(n, q) == IF n < q * (2 ^ MantBits) THEN q ELSE Quantum(n, 2 * q)

RoundFloat(n) ==
    LET q == Quantum(n, 1)
        lo == (n \div q) * q
        r == n - lo
    IN IF 2 * r < q THEN lo
       ELSE IF 2 * r > q THEN lo + q
       ELSE IF (lo \div q) % 2 = 0 THEN lo ELSE lo + q

FAdd(x, y) == IF x = NaN \/ y = NaN THEN NaN ELSE RoundFloat(x + y)

\* R * c of the haversine formula for the segment from p to q, as IEEE-754
\* doubles evaluate it (in metres).  For N8 and S8 the sum a comes out as
\* 1.0000000000000002, so Math.sqrt(1 - a) and with it R * c are NaN.
Haversine(p, q) ==
    IF p = q THEN 0
    ELSE LET k == {p, q}
             metres == CASE k = {P00, P01} -> 111195
                         [] k = {P00, P03} -> 333585
                         [] k = {P01, P03} -> 222390
                         [] k = {P00, N8} -> 889559
                         [] k = {P01, N8} -> 896437
                         [] k = {P03, N8} -> 949669
                         [] k = {P00, S8} -> 19125527
                         [] k = {P01, S8} -> 19118650
                         [] k = {P03, S8} -> 19065418
                         [] k = {N8, S8} -> NaN
         IN IF metres = NaN THEN NaN ELSE RoundFloat(metres)

\* The for loop of calculateDistance from index i on.
RECURSIVE calculateDistanceLoop(_, _, _)
calculateDistanceLoop(cs, i, distance) ==
    IF i < Len(cs) - 1
    THEN calculateDistanceLoop(cs, i + 1, FAdd(distance, Haversine(cs[i + 1], cs[i + 2])))
    ELSE distance

\* calculateDistance measuring every segment from the first waypoint.
RECURSIVE FromStartLoop(_, _, _)
FromStartLoop(cs, i, distance) ==
    IF i < Len(cs) - 1
    THEN FromStartLoop(cs, i + 1, FAdd(distance, Haversine(cs[1], cs[i + 2])))
    ELSE distance

calculateDistanceFromStart(cs) ==
    IF Len(cs) < 2 THEN 0 ELSE FromStartLoop(cs, 0, 0)

\* calculateDistance over the waypoints cs: 0 below 2 waypoints, else the for
\* loop, i from 0, adding R * c of waypoints i and i + 1 to distance.
calculateDistance(cs) ==
    IF Len(cs) < 2 THEN 0 ELSE calculateDistanceLoop(cs, 0, 0)

\* handleMapPress: the tapped coordinate is appended.
handleMapPress(p) ==
    /\ Len(coordinates) < MaxPoints
    /\ coordinates' = Append(coordinates, p)
    /\ last' = Obs("none", NoEmit, {})
    /\ UNCHANGED <<detailVars, circuitName, saving, posts, listVars>>

\* undoLastPoint (its button is disabled without waypoints).
undoLastPoint ==
    /\ Len(coordinates) > 0
    /\ coordinates' = SubSeq(coordinates, 1, Len(coordinates) - 1)
    /\ last' = Obs("none", NoEmit, {})
    /\ UNCHANGED <<detailVars, circuitName, saving, posts, listVars>>

\* clearCircuit, confirmed with Clear.
clearCircuit ==
    /\ Len(coordinates) > 0
    /\ coordinates' = <<>>
    /\ last' = Obs("Clear Circuit", NoEmit, {})
    /\ UNCHANGED <<detailVars, circuitName, saving, posts, listVars>>

\* The name field is edited.
setCircuitName(n) ==
    /\ n # circuitName
    /\ circuitName' = n
    /\ last' = Obs("none", NoEmit, {})
    /\ UNCHANGED <<detailVars, coordinates, saving, posts, listVars>>

\* String.prototype.trim on a name.
RECURSIVE TrimLeft(_)
TrimLeft(n) == IF n # <<>> /\ n[1] = " " THEN TrimLeft(Tail(n)) ELSE n
RECURSIVE TrimRight(_)
TrimRight(n) ==
    IF n # <<>> /\ n[Len(n)] = " " THEN TrimRight(SubSeq(n, 1, Len(n) - 1)) ELSE n
Trim(n) == TrimRight(TrimLeft(n))

\* saveCircuit testing !circuitName in place of !circuitName.trim().
saveCircuitUntrimmed ==
    /\ ~saving
    /\ IF circuitName = <<>> \/ Len(coordinates) < 2
       THEN /\ last' = Obs("Error", NoEmit, {})
            /\ UNCHANGED <<saving, posts>>
       ELSE /\ saving' = TRUE
            /\ posts' = Append(posts, [name |-> circuitName, points |-> Len(coordinates)])
            /\ last' = Obs("none", NoEmit, {"POST circuits"})
    /\ UNCHANGED <<detailVars, coordinates, circuitName, listVars>>

\* saveCircuit up to its await (the Save button is disabled while saving):
\* the two validations, then setSaving(true) and the POST.  Of the request's
\* body the name and the number of waypoints are kept.
saveCircuit ==
    /\ ~saving
    /\ IF Trim(circuitName) = <<>> \/ Len(coordinates) < 2
       THEN /\ last' = Obs("Error", NoEmit, {})
            /\ UNCHANGED <<saving, posts>>
       ELSE /\ saving' = TRUE
            /\ posts' = Append(posts, [name |-> circuitName, points |-> Len(coordinates)])
            /\ last' = Obs("none", NoEmit, {"POST circuits"})
    /\ UNCHANGED <<detailVars, coordinates, circuitName, listVars>>

\* The POST resolves: the Success alert, then finally setSaving(false).
SaveOk(k) ==
    /\ k \in 1..Len(posts)
    /\ posts' = RemoveAt(posts, k)
    /\ saving' = FALSE
    /\ last' = Obs("Success", NoEmit, {})
    /\ UNCHANGED <<detailVars, coordinates, circuitName, listVars>>

\* The POST rejects: the Error alert, then finally setSaving(false).
SaveErr(k) ==
    /\ k \in 1..Len(posts)
    /\ posts' = RemoveAt(posts, k)
    /\ saving' = FALSE
    /\ last' = Obs("Error", NoEmit, {})
    /\ UNCHANGED <<detailVars, coordinates, circuitName, listVars>>

\* ------------------------------------------------------------ Races list
\* The list below the spinner is rendered: filter buttons and pull-to-refresh.
ListRendered == ~listLoading

\* A filter button: setFilter(f); a changed filter re-runs the effect, which
\* calls loadRaces with the new filter.  Nothing cancels the earlier requests.
setFilter(f) ==
    /\ ListRendered /\ f # filter
    /\ Len(listReqs) < MaxListReqs
    /\ filter' = f
    /\ listReqs' = Append(listReqs, f)
    /\ last' = Obs("none", NoEmit, {"GET races"})
    /\ UNCHANGED <<detailVars, builderVars, races, listLoading, refreshing>>

\* Pull to refresh: setRefreshing(true), loadRaces() with this render's filter.
onRefresh ==
    /\ ListRendered
    /\ Len(listReqs) < MaxListReqs
    /\ refreshing' = TRUE
    /\ listReqs' = Append(listReqs, filter)
    /\ last' = Obs("none", NoEmit, {"GET races"})
    /\ UNCHANGED <<detailVars, builderVars, filter, races, listLoading>>

\* A GET /races resolves: setRaces(response.data), finally both flags false.
ListOk(k) ==
    /\ k \in 1..Len(listReqs)
    /\ races' = listReqs[k]
    /\ listLoading' = FALSE /\ refreshing' = FALSE
    /\ listReqs' = RemoveAt(listReqs, k)
    /\ last' = Obs("none", NoEmit, {})
    /\ UNCHANGED <<detailVars, builderVars, filter>>

\* A GET /races rejects: console.error, finally both flags false.
ListErr(k) ==
    /\ k \in 1..Len(listReqs)
    /\ listLoading' = FALSE /\ refreshing' = FALSE
    /\ listReqs' = RemoveAt(listReqs, k)
    /\ last' = Obs("none", NoEmit, {})
    /\ UNCHANGED <<detailVars, builderVars, filter, races>>

\* ---------------------------------------------------------- specifications
\* What the race service and its other users do unasked, and its answers to loads.
Service ==
    \/ \E k \in 1..MaxRouteLoads : LoadServe(k)
    \/ \E i \in Ids : OtherJoin(i) \/ OtherStart(i) \/ OtherFinish(i) \/ Complete(i)

\* loadRaceData's continuations and the channel's handlers.
Loading ==
    \/ \E k \in 1..MaxRouteLoads : LoadFail(k) \/ LoadGot(k) \/ LoadCircuitOk(k)
                                    \/ LoadCircuitFail(k)
    \/ SocketConnect \/ OnRaceStarted \/ OnParticipantFinished

\* The join and start buttons and their requests' continuations.
Lobby ==
    \/ JoinPress \/ \E k \in 1..MaxJoinReqs : JoinServe(k) \/ JoinOk(k) \/ JoinErr(k)
    \/ StartPress \/ \E k \in 1..MaxStartReqs : StartServe(k) \/ StartOk(k) \/ StartErr(k)

\* startRacing, from the button or from race_started.
Racing ==
    \/ BeginPress
    \/ \E c \in 1..MaxRacingCalls : PermissionDenied(c) \/ PermissionGranted(c)
                                    \/ WatchResolve(c) \/ WatchReject(c)

\* One session: a component instance shows one race, from its mount until it
\* is discarded, up to and including the start of local racing.
Next == Service \/ Loading \/ Lobby \/ Racing \/ Unmount

Spec == Init /\ [][Next]_vars

\* The route changes to another race under a user who presses nothing (and
\* leaves the permission prompt unanswered).
NextRoute == Service \/ Loading \/ \E j \in Ids : ChangeId(j)

SpecRoute == Init /\ [][NextRoute]_vars

\* The Finish button and its confirmation.
Finish ==
    \/ FinishPress
    \/ \E d \in 1..MaxDialogs : FinishCancel(d) \/ FinishConfirm(d)

\* One session up to and including the finish of local racing.
NextFinish == Next \/ Finish

SpecFinish == Init /\ [][NextFinish]_vars

\* The clock and the 100 ms interval of the timer effect.
Timer == ClockTick \/ TimerTick

\* A racing session under a running clock: a user who uses neither the join
\* nor the start button and stays on the screen.
NextTimer == Service \/ Loading \/ Racing \/ Finish \/ Timer

SpecTimer == Init /\ [][NextTimer]_vars

\* A live location subscription delivers a sample.
Sample == \E s \in 1..MaxSubs, location \in Locations : LocationCallback(s, location)

\* One session with the position samples of local racing, under a user who
\* uses neither the join nor the start button.
NextSample == Service \/ Loading \/ Racing \/ Unmount \/ Sample

SpecSample == Init /\ [][NextSample]_vars

\* Racing runs with their position samples and their finish.
NextRun == Service \/ Loading \/ Racing \/ Finish \/ Sample

SpecRun == Init /\ [][NextRun]_vars

\* The Races list alone.
NextList ==
    \/ \E f \in Statuses : setFilter(f)
    \/ onRefresh
    \/ \E k \in 1..MaxListReqs : ListOk(k) \/ ListErr(k)

\* RaceDetail while it is not on the screen: nothing of it is running.
DetailIdle ==
    /\ mounted = FALSE /\ id = 1 /\ idChanges = 0
    /\ race = NoRace /\ circuit = 0 /\ leaderboard = {} /\ loading = TRUE
    /\ isRacing = FALSE /\ raceStartTime = 0 /\ currentSpeed = 0 /\ currentTime = 0
    /\ sock = NoSocket /\ subs = <<>> /\ subRef = 0
    /\ loads = <<>> /\ joinReqs = <<>> /\ startReqs = <<>> /\ racingCalls = <<>>
    /\ dialogs = <<>>
    /\ srv = [i \in Ids |-> [status |-> "waiting", parts |-> {}, fin |-> {}]]
    /\ creator = [i \in Ids |-> Other]
    /\ evStarted = FALSE /\ evFinished = FALSE /\ now = 1

\* CreateCircuit as constructed.
InitCircuit == DetailIdle /\ InitBuilder /\ InitList /\ last = Obs("none", NoEmit, {})

\* Drawing a circuit on the map.
NextDistance ==
    \/ \E p \in Points : handleMapPress(p)
    \/ undoLastPoint \/ clearCircuit

SpecDistance == InitCircuit /\ [][NextDistance]_vars

\* Drawing a circuit, naming it and saving it.
NextCircuit ==
    \/ NextDistance
    \/ \E n \in Names : setCircuitName(n)
    \/ saveCircuit
    \/ \E k \in 1..MaxPosts : SaveOk(k) \/ SaveErr(k)

SpecCircuit == InitCircuit /\ [][NextCircuit]_vars

SpecList == InitCircuit /\ [][NextList]_vars

\* ================================================================ claims

\* C1: the local race status only ever advances waiting -> active -> completed:
\* no step of a mounted session takes it from completed to active or waiting,
\* nor from active to waiting.
C1_StatusNeverRegresses == [][mounted' => Rank(race'.status) >= Rank(race.status)]_vars

\* C2: once the session is torn down, no channel connection of it is connecting
\* or connected and no location subscription of it is active.
C2_TeardownReleasesAll ==
    ~mounted => /\ sock.st \notin {"connecting", "connected"}
                /\ \A s \in 1..Len(subs) : ~subs[s].active

\* C3: after teardown the result of a request that resolves is ignored: no step
\* updates race, leaderboard, circuit or loading, and none opens a channel.
C3_LateResultIgnored ==
    [][~mounted => /\ UNCHANGED <<race, leaderboard, circuit, loading>>
                   /\ (sock.st = "none" => sock'.st = "none")]_vars

\* C4: a load that completes in a mounted session leaves the channel open
\* (connecting or connected) if it fetched status waiting or active, and leaves
\* the socket as it was if it fetched completed.
C4_LoadOpensChannel ==
    [][\A k \in 1..MaxRouteLoads :
          (mounted /\ LoadCircuitOk(k)) =>
              /\ loads[k].status \in {"waiting", "active"} => sock'.st \in {"connecting", "connected"}
              /\ loads[k].status = "completed" => sock' = sock]_vars

\* C5: a race_started event makes the local status active, and calls
\* startRacing exactly if this user is in the race's participant set.
C5_StartedBeginsRacingIffJoined ==
    [][(mounted /\ OnRaceStarted) =>
          /\ race'.status = "active"
          /\ (Len(racingCalls') > Len(racingCalls)) <=> hasJoined]_vars

\* C6: the resolution of the start request changes nothing of the session but
\* the request itself, and the local status goes from waiting to active only in
\* the race_started handler or when a load's response is stored.
C6_StartResponseChangesNothing ==
    [][/\ \A k \in 1..MaxStartReqs :
             StartOk(k) => UNCHANGED <<compVars, refVars, loads, joinReqs, racingCalls, dialogs>>
       /\ (race.status = "waiting" /\ race'.status = "active") =>
             (OnRaceStarted \/ \E k \in 1..MaxLoads : LoadGot(k))]_vars

\* C6's case: this user's start request was accepted and has resolved, and the
\* local status is still waiting.
C6_Witness ==
    /\ mounted /\ creator[id] = Me /\ srv[id].status = "active"
    /\ startReqs = <<>> /\ race.status = "waiting"

\* C7: a start request is issued only when this user is the local race's
\* creator, the local status is waiting and the local participant set is not empty.
C7_StartOnlyWhenAllowed ==
    [][Len(startReqs') > Len(startReqs) =>
          race.creator = Me /\ race.status = "waiting" /\ Cardinality(race.parts) >= 1]_vars

\* C7's case: a start request has just been issued.
C7_Witness == last.http = {"POST start"} /\ Len(startReqs) >= 1

C9_OneInFlightPerAction ==
    /\ Len(joinReqs) <= 1 /\ Len(startReqs) <= 1
    /\ Len(racingCalls) <= 1 /\ Len(dialogs) <= 1

\* C10: whenever isRacing is true, the local status is active and this user is
\* in the local participant set.
C10_RacingOnlyJoinedActive == isRacing => (race.status = "active" /\ hasJoined)

\* C11: a refused location permission ends that startRacing call with the
\* Permission Denied notice and nothing else: isRacing and raceStartTime keep
\* their values, no subscription is created or stored, nothing is emitted.
C11_DeniedStartsNothing ==
    [][\A c \in 1..MaxRacingCalls :
          PermissionDenied(c) =>
              /\ UNCHANGED <<isRacing, raceStartTime, subs, subRef, sock>>
              /\ Len(racingCalls') = Len(racingCalls) - 1
              /\ last'.emit = NoEmit /\ last'.alert = "Permission Denied"]_vars

\* C11's case: the permission was just refused and the session is not racing.
C11_Witness ==
    /\ mounted /\ last.alert = "Permission Denied"
    /\ ~isRacing /\ raceStartTime = 0 /\ subs = <<>> /\ racingCalls = <<>>

\* C12: confirming finishRace emits one finish_race with the race id and the
\* final time, sets isRacing to false, cancels the location subscription and
\* reloads, without touching the leaderboard; so a mounted session that is not
\* racing and has no startRacing call running holds no live subscription.
C12_FinishCancelsSubscription ==
    /\ (last.alert = "Race Complete!" =>
           /\ last.emit.ev = "finish_race" /\ last.http = LoadHttp
           /\ (mounted => ~isRacing)
           /\ \A s \in 1..Len(subs) : ~subs[s].active)
    /\ (mounted /\ ~isRacing /\ racingCalls = <<>> =>
           \A s \in 1..Len(subs) : ~subs[s].active)

\* C13: the final_time finishRace sends is the finish timestamp minus the start
\* timestamp recorded when this racing run began (never a missing start taken
\* as 0, never negative): the confirmation computes it from the start the
\* dialog holds, and the recorded start does not change while the run lasts.
C13_FinalTimeFromRunStart ==
    [][/\ \A d \in 1..MaxDialogs :
             FinishConfirm(d) =>
                 /\ dialogs[d].start # 0
                 /\ last'.emit.ev = "finish_race"
                 /\ last'.emit.val = now - dialogs[d].start /\ last'.emit.val >= 0
       /\ (FinishPress => dialogs'[Len(dialogs')].start = raceStartTime)
       /\ (isRacing /\ isRacing' => raceStartTime' = raceStartTime)]_vars

\* C14: while isRacing stays true, the elapsed time the interval displays at
\* a tick (Date.now() - raceStartTime) never decreases from one step to the
\* next, so successive ticks of one racing run show non-decreasing times.
C14_ElapsedTimeMonotonic ==
    [][mounted /\ isRacing /\ isRacing' /\ raceStartTime # 0 =>
           now' - raceStartTime' >= now - raceStartTime]_vars

\* C15: a load that fails is surfaced with the Error notice and leaves nothing
\* of itself behind: when it ends with no circuit in the session, no race and
\* no leaderboard are in the session either.
C15_FailedLoadLeavesNothing ==
    [][\A k \in 1..MaxLoads :
          LoadFail(k) \/ LoadCircuitFail(k) =>
              /\ last'.alert = "Error"
              /\ (mounted /\ circuit' = 0 => race' = NoRace /\ leaderboard' = {})]_vars

\* C16: when the load running while the session still shows its first spinner
\* fails, at either await, no socket is created, the spinner ends, and the
\* screen is the Race not found one (no race or no circuit in the session).
C16_FailedInitialLoadNoChannel ==
    [][\A k \in 1..MaxLoads :
          mounted /\ loading /\ (LoadFail(k) \/ LoadCircuitFail(k)) =>
              /\ sock = NoSocket /\ sock' = NoSocket
              /\ ~loading' /\ (race' = NoRace \/ circuit' = 0) /\ ~Rendered'
              /\ last'.alert = "Error"]_vars

\* C16's case: the race id did not resolve and the first load has ended.
C16_Witness ==
    /\ mounted /\ ~loading /\ loads = <<>> /\ last.alert = "Error"
    /\ race = NoRace /\ circuit = 0 /\ sock = NoSocket

\* C17: the circuit GET is only issued by a load whose race and leaderboard
\* GETs have both been answered; the race and leaderboard GETs are always
\* issued together, in the step that starts the load.
C17_CircuitAfterRace ==
    [][/\ ("GET circuit" \in last'.http =>
              \E k \in 1..Len(loads) :
                  /\ loads[k].pc = "got" /\ loads[k].status # "none"
                  /\ Len(loads') = Len(loads) /\ loads'[k].pc = "circuit")
       /\ ("GET race" \in last'.http <=> "GET leaderboard" \in last'.http)
       /\ (Len(loads') > Len(loads) =>
              /\ loads'[Len(loads')].pc = "sent"
              /\ {"GET race", "GET leaderboard"} \subseteq last'.http)]_vars

\* C17's case: a load has had its race answered and its circuit GET is out.
C17_Witness ==
    /\ last.http = {"GET circuit"}
    /\ \E k \in 1..Len(loads) : loads[k].pc = "circuit" /\ race.rid = loads[k].rid

\* C18: a participant_finished event starts a reload (race and leaderboard
\* GETs of the socket's race) and leaves the leaderboard as it is; the
\* leaderboard in the session only ever changes when a load's answer is applied
\* (or the component is discarded).
C18_FinishedEventReloads ==
    [][/\ (OnParticipantFinished =>
              /\ Len(loads') = Len(loads) + 1
              /\ loads'[Len(loads')] = NewLoad(sock.rid)
              /\ last'.http = {"GET race", "GET leaderboard"}
              /\ leaderboard' = leaderboard)
       /\ (leaderboard' # leaderboard =>
              \/ ~mounted'
              \/ \E k \in 1..Len(loads) : loads[k].pc = "got" /\ leaderboard' = loads[k].fin)]_vars

\* C18's case: the event was just handled and its reload is out.
C18_Witness ==
    /\ mounted /\ ~loading /\ sock.st = "connected" /\ ~evFinished
    /\ srv[sock.rid].fin # {} /\ leaderboard = {}
    /\ last = Obs("none", NoEmit, LoadHttp)
    /\ Len(loads) = 1 /\ loads[1] = NewLoad(sock.rid)

\* C19: every failure of a session action (join request, start request, the
\* permission or the subscription of startRacing) shows a notice, sends nothing
\* again, and leaves race and isRacing as they are.
C19_FailuresSurfaced ==
    [][(\/ \E k \in 1..MaxJoinReqs : JoinErr(k)
        \/ \E k \in 1..MaxStartReqs : StartErr(k)
        \/ \E c \in 1..MaxRacingCalls : PermissionDenied(c) \/ WatchReject(c)) =>
           /\ last'.alert # "none"
           /\ last'.http = {} /\ last'.emit = NoEmit
           /\ UNCHANGED <<race, isRacing, loads, subs>>
           /\ Len(joinReqs') <= Len(joinReqs) /\ Len(startReqs') <= Len(startReqs)
           /\ Len(racingCalls') <= Len(racingCalls)]_vars

\* C20: a position sample taken while the socket is absent or not connected
\* raises no notice, sends no request and schedules nothing, and leaves
\* isRacing, raceStartTime, the subscriptions and the socket as they are.
C20_SampleFireAndForget ==
    [][\A s \in 1..MaxSubs, location \in Locations :
          LocationCallback(s, location) /\ sock.st # "connected" =>
              /\ last'.alert = "none" /\ last'.http = {}
              /\ UNCHANGED <<isRacing, raceStartTime, subs, subRef, sock, flightVars>>
              /\ subs'[s].active]_vars

\* C20's case: racing, a sample was just handed to a socket that has not
\* connected yet, and the subscription is still live.
C20_Witness ==
    /\ mounted /\ isRacing /\ sock.st = "connecting"
    /\ last.emit.ev = "position_update" /\ last.alert = "none"
    /\ subRef # 0 /\ subs[subRef].active

\* C21: a position sample sets the displayed speed to the provider's speed
\* times 3.6, a missing speed counting as 0 (5 m/s gives 18.0 km/h), and the
\* position_update sent for it carries the race id of the session, the sample's
\* latitude and longitude, and the speed in m/s as provided.
C21_SpeedConvertedRawForwarded ==
    [][\A s \in 1..MaxSubs, location \in Locations :
          LocationCallback(s, location) =>
              LET mps == IF location.speed = <<>> THEN 0 ELSE location.speed[1]
              IN /\ (mounted => currentSpeed' = mps * 36)
                 /\ (mps = 5 /\ mounted => currentSpeed' = 180)
                 /\ (sock.st # "none" =>
                        last'.emit = [ev |-> "position_update", rid |-> id, val |-> mps,
                                      lat |-> location.latitude, lon |-> location.longitude])]_vars

\* C21's case: a sample with 5 m/s was just shown as 18.0 km/h and forwarded.
C21_Witness ==
    /\ mounted /\ isRacing /\ currentSpeed = 180
    /\ last.emit.ev = "position_update" /\ last.emit.val = 5 /\ last.emit.lat = 42

\* C22: the session owns at most one live location subscription, and the one
\* that is live is the one locationSubscription.current refers to (the session
\* has a single socket reference, which connectWebSocket never replaces).
C22_OneSubscriptionReferenced ==
    /\ Cardinality({s \in 1..Len(subs) : subs[s].active}) <= 1
    /\ \A s \in 1..Len(subs) : subs[s].active => subRef = s

\* C23: when the socket connects it emits join_race with the id of the race
\* the session is showing (the route's id, or the race on the screen while
\* the route's own load is still out), and the socket's address holds this
\* user's id.
C23_JoinOnConnect ==
    [][SocketConnect =>
          /\ sock'.st = "connected" /\ sock'.user = Me
          /\ last'.emit.ev = "join_race"
          /\ (mounted => last'.emit.rid = id \/ last'.emit.rid = race.rid)]_vars

\* C24: calculateDistance gives 0 for fewer than 2 waypoints, and for every
\* waypoint sequence a number that is at least 0 and is the sum, in order, of
\* the distances of its consecutive pairs.
C24_DistanceIsSegmentSum ==
    LET RECURSIVE SegmentSum(_)
        SegmentSum(cs) ==
            IF Len(cs) < 2 THEN 0
            ELSE FAdd(SegmentSum(SubSeq(cs, 1, Len(cs) - 1)),
                      Haversine(cs[Len(cs) - 1], cs[Len(cs)]))
        distance == calculateDistance(coordinates)
    IN /\ (Len(coordinates) < 2 => distance = 0)
       /\ distance # NaN /\ distance >= 0
       /\ distance = SegmentSum(coordinates)

C26_OnlyValidCircuitsPosted ==
    /\ [](\A k \in 1..Len(posts) : posts[k].points >= 2 /\ Trim(posts[k].name) # <<>>)
    /\ [][saveCircuit =>
             IF Trim(circuitName) # <<>> /\ Len(coordinates) >= 2
             THEN /\ posts' = Append(posts, [name |-> circuitName, points |-> Len(coordinates)])
                  /\ last'.http = {"POST circuits"}
             ELSE /\ last'.alert = "Error"
                  /\ last'.http = {}
                  /\ posts' = posts
                  /\ saving' = FALSE]_vars

\* C26's case: one circuit has been posted and answered, and a later save of
\* a blank name is refused.
C26_Witness ==
    /\ circuitName = <<" ">>
    /\ Len(coordinates) >= 2
    /\ last.alert = "Error"
    /\ last.http = {}
    /\ ~saving
    /\ posts = <<>>

\* C27: at most one finish_race is emitted in a session: once the service has
\* this user's finish of a race, which only a finish_race of this session
\* puts there, no confirmation emits finish_race for that race again.
C27_FinishEmittedOnce ==
    [][\A d \in 1..MaxDialogs :
          FinishConfirm(d) /\ last'.emit.ev = "finish_race" =>
              Me \notin srv[dialogs[d].rid].fin]_vars

\* C28: a position_update is emitted only while racing: whenever a location
\* callback of the mounted screen emits one, isRacing is true.
C28_PositionOnlyWhileRacing ==
    [][\A s \in 1..MaxSubs, location \in Locations :
          LocationCallback(s, location) /\ mounted /\ last'.emit.ev = "position_update"
              => isRacing]_vars

\* C29: after the route's id has changed and the load for the new id has put
\* a waiting or active race and its circuit on the screen, the socket the
\* component holds is open (connecting or connected) and was opened for the
\* new id; it is not the closed socket of the previous id.
C29_NewIdGetsOwnChannel ==
    (/\ mounted /\ idChanges > 0 /\ loads = <<>> /\ ~loading
     /\ race.rid = id /\ circuit = id
     /\ race.status \in {"waiting", "active"})
        => sock.st \in {"connecting", "connected"} /\ sock.rid = id

\* C30: a late response for an earlier filter never overwrites the result
\* of the later filter: when the rows shown are those of the selected filter
\* and no request for that filter is still unanswered, a response to a
\* request for another filter leaves them in place.
C30_LateResponseKeepsLaterFilter ==
    [][\A k \in 1..MaxListReqs :
          (/\ ListOk(k) /\ listReqs[k] # filter
           /\ races = filter /\ \A j \in 1..Len(listReqs) : listReqs[j] # filter)
              => races' = races]_vars

====
